---- MODULE Spec2Model ----
(***************************************************************************)
(* Model of 2DParticleSimulation.cpp: the frame loop of main (input        *)
(* handling, the two-worker force/integration loop, boundary wrap,         *)
(* handleCollisions) and the pure functions it calls.                      *)
(*                                                                         *)
(* Numbers: a float is modelled as a rational <<num, den>> in lowest terms *)
(* with den > 0 and both parts within Precision.  The result of an         *)
(* operation is exact when it is such a number and rounded to one          *)
(* otherwise, the way the float format rounds what it cannot hold.         *)
(***************************************************************************)
EXTENDS Integers, Sequences, FiniteSets, TLC

\* ------------------------------------------------------------------------
\* Program constants
\* ------------------------------------------------------------------------
minDistanceThreshold == 10
G == 1000
maxIterations == 10
screenWidth == 1600
screenHeight == 900
BallRadius == 5
NumThreads == 2

\* ------------------------------------------------------------------------
\* Bounds of the model
\* ------------------------------------------------------------------------
\* number of particles of the frame-loop model (ballCount in the program)
NumBalls == 2
\* number of frames the frame loop runs
MaxFrames == 2
\* number of consecutive calls of resolveBallCollision on one pair
MaxCalls == 2
\* number of consecutive applications of the boundary wrap to one particle
MaxWraps == 1
\* largest numerator and denominator a float of the model holds
Precision == 30000

\* ------------------------------------------------------------------------
\* float arithmetic
\* ------------------------------------------------------------------------
\* the largest root taken: the square of it is an integer the checker holds
MaxRoot == Precision + Precision \div 2

Abs(a) == IF a < 0 THEN -a ELSE a

RECURSIVE Gcd(_, _)
Gcd(a, b) == IF b = 0 THEN a ELSE Gcd(b, a % b)

\* continued-fraction convergents of n / d (n >= 0, d > 0): the last one
\* whose numerator and denominator are both within Precision
RECURSIVE Convergent(_, _, _, _, _, _)
Convergent(n, d, h1, k1, h0, k0) ==
    LET a == n \div d
        tooBig == \/ (h1 > 0 /\ a > (Precision - h0) \div h1)
                  \/ (k1 > 0 /\ a > (Precision - k0) \div k1)
        h == a * h1 + h0
        k == a * k1 + k0
    IN  IF tooBig THEN <<h1, k1>>
        ELSE IF n % d = 0 THEN <<h, k>>
        ELSE Convergent(d, n % d, h, k, h1, k1)

\* the float closest to n / d: n / d itself in lowest terms when it fits,
\* a rounded value otherwise, the largest float when n / d is beyond it
Q(n, d) ==
    LET s == IF (n < 0) = (d < 0) THEN 1 ELSE -1
        g == Gcd(Abs(n), Abs(d))
        an == Abs(n) \div g
        ad == Abs(d) \div g
        c == Convergent(an, ad, 1, 0, 0, 1)
    IN  IF an <= Precision /\ ad <= Precision THEN <<s * an, ad>>
        ELSE IF c[2] = 0 THEN <<s * Precision, 1>>
        ELSE <<s * c[1], c[2]>>

F(n) == <<n, 1>>
Zero == F(0)

QAdd(a, b) == Q(a[1] * b[2] + b[1] * a[2], a[2] * b[2])
QSub(a, b) == Q(a[1] * b[2] - b[1] * a[2], a[2] * b[2])
QMul(a, b) == Q(a[1] * b[1], a[2] * b[2])
QDiv(a, b) == Q(a[1] * b[2], a[2] * b[1])
QLt(a, b) == a[1] * b[2] < b[1] * a[2]
QGt(a, b) == QLt(b, a)

\* the largest r in lo..hi with r * r <= n
RECURSIVE RootBetween(_, _, _)
RootBetween(n, lo, hi) ==
    IF lo = hi THEN lo
    ELSE LET mid == (lo + hi + 1) \div 2
         IN  IF mid * mid <= n THEN RootBetween(n, mid, hi)
             ELSE RootBetween(n, lo, mid - 1)
ISqrt(n) == RootBetween(n, 0, MaxRoot)

\* sqrtf: exact when a has a rational root, rounded down otherwise
QSqrt(a) ==
    LET nd == a[1] * a[2]
        k == MaxRoot \div (ISqrt(nd) + 1)
    IN  IF a[1] <= 0 THEN Zero ELSE Q(ISqrt(nd * k * k), a[2] * k)

\* ------------------------------------------------------------------------
\* raymath Vector2
\* ------------------------------------------------------------------------
V(x, y) == [x |-> x, y |-> y]
VZero == V(Zero, Zero)
Vector2Add(a, b) == V(QAdd(a.x, b.x), QAdd(a.y, b.y))
Vector2Subtract(a, b) == V(QSub(a.x, b.x), QSub(a.y, b.y))
Vector2Scale(v, s) == V(QMul(v.x, s), QMul(v.y, s))
Vector2DotProduct(a, b) == QAdd(QMul(a.x, b.x), QMul(a.y, b.y))
Vector2Length(v) == QSqrt(QAdd(QMul(v.x, v.x), QMul(v.y, v.y)))
Vector2Distance(a, b) == Vector2Length(Vector2Subtract(a, b))
\* a zero vector is returned as it is (length > 0 is the only case scaled)
Vector2Normalize(v) ==
    LET length == Vector2Length(v)
    IN  IF QGt(length, Zero) THEN Vector2Scale(v, QDiv(F(1), length)) ELSE v

\* ------------------------------------------------------------------------
\* struct Ball (color left out: it is never read by the simulation)
\* ------------------------------------------------------------------------
Ball(p, v, a, r, m) ==
    [position |-> p, velocity |-> v, acceleration |-> a, radius |-> r, mass |-> m]

\* the mass without the "+ 1"
MassOfNoOffset(radius, random) == QMul(radius, F(random \div 16))

\* line 97: mass of a new ball, from the random byte drawn for it
MassOf(radius, random) == QMul(radius, F((random \div 16) + 1))

\* ------------------------------------------------------------------------
\* struct KahanVector2Sum
\* ------------------------------------------------------------------------
KahanNew == [sum |-> VZero, c |-> VZero]
KahanAdd(k, value) ==
    LET y == Vector2Subtract(value, k.c)
        t == Vector2Add(k.sum, y)
    IN  [sum |-> t, c |-> Vector2Subtract(Vector2Subtract(t, k.sum), y)]

\* ------------------------------------------------------------------------
\* calculateGravitationalForce, checkBallCollision
\* ------------------------------------------------------------------------
calculateGravitationalForce(source, target) ==
    LET direction == Vector2Subtract(target.position, source.position)
        distance == QAdd(Vector2Length(direction), F(minDistanceThreshold))
        forceMagnitude == QDiv(QMul(QMul(F(G), source.mass), target.mass),
                               QMul(distance, distance))
    IN  Vector2Scale(Vector2Normalize(direction), forceMagnitude)

checkBallCollision(ball1, ball2) ==
    QLt(Vector2Distance(ball1.position, ball2.position),
        QAdd(ball1.radius, ball2.radius))

\* ------------------------------------------------------------------------
\* resolveBallCollision: the pair <<ball1, ball2>> after the call
\* ------------------------------------------------------------------------
\* relativeSpeed: (v2 - v1) projected on the centre-to-centre normal
RelativeSpeed(ball1, ball2) ==
    Vector2DotProduct(Vector2Subtract(ball2.velocity, ball1.velocity),
        Vector2Normalize(Vector2Subtract(ball2.position, ball1.position)))

\* overlap = (r1 + r2) - distance
Overlap(ball1, ball2) ==
    QSub(QAdd(ball1.radius, ball2.radius),
         Vector2Distance(ball1.position, ball2.position))

\* lines 53-63: the positional correction
CorrectPositions(ball1, ball2) ==
    IF checkBallCollision(ball1, ball2)
    THEN LET d0 == Vector2Subtract(ball2.position, ball1.position)
             overlap == Overlap(ball1, ball2)
             direction == Vector2Normalize(d0)
             totalMass == QAdd(ball1.mass, ball2.mass)
             ratio1 == QDiv(ball2.mass, totalMass)
             ratio2 == QDiv(ball1.mass, totalMass)
         IN  <<Vector2Subtract(ball1.position,
                               Vector2Scale(direction, QMul(overlap, ratio1))),
               Vector2Add(ball2.position,
                          Vector2Scale(direction, QMul(overlap, ratio2)))>>
    ELSE <<ball1.position, ball2.position>>

\* the impulse with the two masses exchanged in the second update
ApplyImpulseSameMass(ball1, ball2, normal, relativeSpeed) ==
    IF QLt(relativeSpeed, Zero)
    THEN LET impulse == QDiv(QMul(F(2), relativeSpeed), QAdd(ball1.mass, ball2.mass))
         IN  <<Vector2Add(ball1.velocity,
                          Vector2Scale(normal, QMul(impulse, ball2.mass))),
               Vector2Subtract(ball2.velocity,
                               Vector2Scale(normal, QMul(impulse, ball2.mass)))>>
    ELSE <<ball1.velocity, ball2.velocity>>

\* the impulse without the factor 2 (a perfectly inelastic contact)
ApplyImpulseInelastic(ball1, ball2, normal, relativeSpeed) ==
    IF QLt(relativeSpeed, Zero)
    THEN LET impulse == QDiv(relativeSpeed, QAdd(ball1.mass, ball2.mass))
         IN  <<Vector2Add(ball1.velocity,
                          Vector2Scale(normal, QMul(impulse, ball2.mass))),
               Vector2Subtract(ball2.velocity,
                               Vector2Scale(normal, QMul(impulse, ball1.mass)))>>
    ELSE <<ball1.velocity, ball2.velocity>>

\* lines 65-69: the elastic impulse
ApplyImpulse(ball1, ball2, normal, relativeSpeed) ==
    IF QLt(relativeSpeed, Zero)
    THEN LET impulse == QDiv(QMul(F(2), relativeSpeed), QAdd(ball1.mass, ball2.mass))
         IN  <<Vector2Add(ball1.velocity,
                          Vector2Scale(normal, QMul(impulse, ball2.mass))),
               Vector2Subtract(ball2.velocity,
                               Vector2Scale(normal, QMul(impulse, ball1.mass)))>>
    ELSE <<ball1.velocity, ball2.velocity>>

resolveBallCollision(ball1, ball2) ==
    LET normal == Vector2Normalize(Vector2Subtract(ball2.position, ball1.position))
        relativeSpeed == RelativeSpeed(ball1, ball2)
        pos == CorrectPositions(ball1, ball2)
        vel == ApplyImpulse(ball1, ball2, normal, relativeSpeed)
    IN  <<[ball1 EXCEPT !.position = pos[1], !.velocity = vel[1]],
          [ball2 EXCEPT !.position = pos[2], !.velocity = vel[2]]>>

\* ------------------------------------------------------------------------
\* lines 156-168: the boundary wrap of one ball (y first, then x)
\* ------------------------------------------------------------------------
\* the wrap with the upper test inclusive
WrapAxisInclusive(p, radius, extent) ==
    LET hi == QAdd(F(extent), radius)
        lo == Q(-radius[1], radius[2])
        p1 == IF ~QLt(p, hi) THEN lo ELSE p
    IN  IF QLt(p1, lo) THEN hi ELSE p1

\* one axis: the two tests in the order of the code
WrapAxis(p, radius, extent) ==
    LET hi == QAdd(F(extent), radius)
        lo == Q(-radius[1], radius[2])
        p1 == IF QGt(p, hi) THEN lo ELSE p
    IN  IF QLt(p1, lo) THEN hi ELSE p1

Bounds(ball) ==
    [ball EXCEPT !.position = V(WrapAxis(ball.position.x, ball.radius, screenWidth),
                                WrapAxis(ball.position.y, ball.radius, screenHeight))]

\* ------------------------------------------------------------------------
\* lines 111-130: input handling
\* ------------------------------------------------------------------------
\* raylib CheckCollisionPointCircle: the point is within the circle, rim included
CheckCollisionPointCircle(point, center, radius) ==
    LET d == Vector2Subtract(point, center)
    IN  ~QGt(QAdd(QMul(d.x, d.x), QMul(d.y, d.y)), QMul(radius, radius))

\* lines 112-118: index of the first ball under the pointer, -1 when none
RECURSIVE HitFrom(_, _, _)
HitFrom(bs, mouse, i) ==
    IF i \notin DOMAIN bs THEN -1
    ELSE IF CheckCollisionPointCircle(mouse, bs[i].position, bs[i].radius) THEN i
    ELSE HitFrom(bs, mouse, i + 1)
HitIndex(bs, mouse) == HitFrom(bs, mouse, 0)

\* the press handler with the assignments moved out of the hit test
PressHandlerAlways(bs, dragging, index, pressed, mouse) ==
    IF pressed THEN <<TRUE, HitIndex(bs, mouse)>> ELSE <<dragging, index>>

\* lines 111-119: <<isDragging, draggedBallIndex>> after the press handler
PressHandler(bs, dragging, index, pressed, mouse) ==
    IF pressed /\ HitIndex(bs, mouse) # -1
    THEN <<TRUE, HitIndex(bs, mouse)>>
    ELSE <<dragging, index>>

\* lines 120-126: the balls after the release handler ("throw")
ReleaseHandler(bs, dragging, index, released, mouse, deltaTime) ==
    IF released /\ dragging
    THEN [bs EXCEPT
            ![index].velocity =
                V(QDiv(QSub(mouse.x, bs[index].position.x), deltaTime),
                  QDiv(QSub(mouse.y, bs[index].position.y), deltaTime))]
    ELSE bs

\* lines 127-130: the dragged ball follows the pointer
DragOverride(bs, dragging, index, mouse) ==
    IF dragging THEN [bs EXCEPT ![index].position = mouse] ELSE bs

\* ------------------------------------------------------------------------
\* State
\* ------------------------------------------------------------------------
VARIABLES
    balls,              \* std::vector<Ball> balls, indexed from 0
    isDragging,         \* bool isDragging
    draggedBallIndex,   \* int draggedBallIndex
    input,              \* what raylib reports in this frame: pressed, released,
                        \* mouse, deltaTime
    pc,                 \* position of the main thread
    worker,             \* per worker of the parallel loop: ball index i, position
                        \* at, inner index j, the local kahanAccelerationSum k
    iteration, ci, cj,  \* loop counters of handleCollisions
    frame,              \* frames (calls, in the function specifications) done
    snap                \* history: balls when the parallel loop of this frame
                        \* began (before the last call, in the function
                        \* specifications)

vars == <<balls, isDragging, draggedBallIndex, input, pc, worker,
          iteration, ci, cj, frame, snap>>

Workers == 0 .. (NumThreads - 1)
Indices == 0 .. (NumBalls - 1)

\* static schedule of "#pragma omp parallel for num_threads(2)": contiguous
\* chunks, the first N % T workers taking one iteration more
ChunkStart(w) ==
    LET q == NumBalls \div NumThreads
        t == NumBalls % NumThreads
    IN  w * q + (IF w < t THEN w ELSE t)
ChunkEnd(w) == ChunkStart(w + 1)

NoInput == [pressed |-> FALSE, released |-> FALSE, mouse |-> VZero, deltaTime |-> Zero]
Idle == [i |-> 0, at |-> "done", j |-> 0, k |-> KahanNew]

\* ------------------------------------------------------------------------
\* Input sets of the frame loop
\* ------------------------------------------------------------------------
\* the balls lie on one horizontal line, close together
LineY == 450
InitX(i) == 100 + 10 * i
\* neighbours move towards each other
InitVelocities(i) == IF i % 2 = 0 THEN {V(F(10), Zero)} ELSE {V(F(-10), Zero)}
\* random bytes drawn for the mass: all of them give mass = radius
InitRandoms == {0, 15}
\* one pointer position off every ball, one on ball 0 (and within reach of ball 1)
MousePositions == {V(F(80), F(LineY)), V(F(103), F(LineY))}
DeltaTimes == {<<1, 60>>}

\* ------------------------------------------------------------------------
\* The frame loop of main
\* ------------------------------------------------------------------------
\* lines 88-107: the balls as created, nothing dragged
Init ==
    /\ balls \in {bs \in [Indices -> [position : {V(F(InitX(i)), F(LineY)) : i \in Indices},
                                      velocity : UNION {InitVelocities(i) : i \in Indices},
                                      acceleration : {VZero},
                                      radius : {F(BallRadius)},
                                      mass : {MassOf(F(BallRadius), r) : r \in InitRandoms}]] :
                    \A i \in Indices : /\ bs[i].position.x = F(InitX(i))
                                        /\ bs[i].velocity \in InitVelocities(i)}
    /\ isDragging = FALSE
    /\ draggedBallIndex = -1
    /\ input = NoInput
    /\ pc = "input"
    /\ worker = [w \in Workers |-> Idle]
    /\ iteration = 0
    /\ ci = 0
    /\ cj = 1
    /\ frame = 0
    /\ snap = balls

\* lines 110-131: one frame's input handling, then the fork of the parallel loop
HandleInput ==
    /\ pc = "input"
    /\ frame < MaxFrames
    /\ \E pressed \in BOOLEAN, released \in BOOLEAN,
          mouse \in MousePositions, deltaTime \in DeltaTimes :
          LET ph == PressHandler(balls, isDragging, draggedBallIndex, pressed, mouse)
              thrown == ReleaseHandler(balls, ph[1], ph[2], released, mouse, deltaTime)
              dragging == ph[1] /\ ~released
              moved == DragOverride(thrown, dragging, ph[2], mouse)
          IN  /\ balls' = moved
              /\ isDragging' = dragging
              /\ draggedBallIndex' = ph[2]
              /\ input' = [pressed |-> pressed, released |-> released,
                           mouse |-> mouse, deltaTime |-> deltaTime]
              /\ snap' = moved
    /\ worker' = [w \in Workers |->
                    [i |-> ChunkStart(w), at |-> "start", j |-> 0, k |-> KahanNew]]
    /\ pc' = "parallel"
    /\ UNCHANGED <<iteration, ci, cj, frame>>

\* line 109: the window is closed, the loop ends
CloseWindow ==
    /\ pc = "input"
    /\ pc' = "closed"
    /\ UNCHANGED <<balls, isDragging, draggedBallIndex, input, worker,
                   iteration, ci, cj, frame, snap>>

\* lines 132-136: a worker takes its next ball
WorkerStart(w) ==
    /\ pc = "parallel"
    /\ worker[w].at = "start"
    /\ LET i == worker[w].i IN
       IF i >= ChunkEnd(w)
       THEN /\ worker' = [worker EXCEPT ![w].at = "done"]
            /\ UNCHANGED balls
       ELSE IF ~isDragging
       THEN /\ balls' = [balls EXCEPT ![i].acceleration = VZero]
            /\ worker' = [worker EXCEPT ![w].at = "force", ![w].j = 0, ![w].k = KahanNew]
       ELSE /\ worker' = [worker EXCEPT ![w].at = "bounds"]
            /\ UNCHANGED balls
    /\ UNCHANGED <<isDragging, draggedBallIndex, input, pc, iteration, ci, cj, frame, snap>>

\* lines 137-142: one iteration of the loop over otherBall
WorkerForce(w) ==
    /\ pc = "parallel"
    /\ worker[w].at = "force"
    /\ worker[w].j < NumBalls
    /\ LET i == worker[w].i
           j == worker[w].j
           force == calculateGravitationalForce(balls[i], balls[j])
       IN  worker' = [worker EXCEPT
                ![w].j = j + 1,
                ![w].k = IF j # i
                         THEN KahanAdd(@, Vector2Scale(force, QDiv(F(1), balls[i].mass)))
                         ELSE @]
    /\ UNCHANGED <<balls, isDragging, draggedBallIndex, input, pc,
                   iteration, ci, cj, frame, snap>>

\* lines 143-153: acceleration, velocity and position of the worker's ball
Integrate(ball, accel, deltaTime) ==
    LET kv1 == KahanAdd(KahanNew, ball.velocity)
        kv2 == KahanAdd(kv1, Vector2Scale(accel, deltaTime))
        kp1 == KahanAdd(KahanNew, ball.position)
        kp2 == KahanAdd(kp1, Vector2Scale(kv2.sum, deltaTime))
    IN  [ball EXCEPT !.acceleration = accel, !.velocity = kv2.sum, !.position = kp2.sum]

WorkerIntegrate(w) ==
    /\ pc = "parallel"
    /\ worker[w].at = "force"
    /\ worker[w].j = NumBalls
    /\ balls' = [balls EXCEPT
                    ![worker[w].i] = Integrate(@, worker[w].k.sum, input.deltaTime)]
    /\ worker' = [worker EXCEPT ![w].at = "bounds"]
    /\ UNCHANGED <<isDragging, draggedBallIndex, input, pc, iteration, ci, cj, frame, snap>>

\* lines 156-168: the boundary wrap of the worker's ball, then the next ball
WorkerBounds(w) ==
    /\ pc = "parallel"
    /\ worker[w].at = "bounds"
    /\ balls' = [balls EXCEPT ![worker[w].i] = Bounds(@)]
    /\ worker' = [worker EXCEPT ![w].at = "start", ![w].i = @ + 1]
    /\ UNCHANGED <<isDragging, draggedBallIndex, input, pc, iteration, ci, cj, frame, snap>>

\* the join that never waits
JoinAnytime == TRUE

\* line 169: the end of the parallel region, every worker has finished its chunk
AllWorkersDone == \A w \in Workers : worker[w].at = "done"

\* lines 169-170: the join, then the call of handleCollisions
Join ==
    /\ pc = "parallel"
    /\ AllWorkersDone
    /\ pc' = "collide"
    /\ iteration' = 0
    /\ ci' = 0
    /\ cj' = 1
    /\ UNCHANGED <<balls, isDragging, draggedBallIndex, input, worker, frame, snap>>

\* lines 73-81: one pair of handleCollisions, then the advance of the loops
CollidePair ==
    /\ pc = "collide"
    /\ iteration < maxIterations
    /\ LET r == resolveBallCollision(balls[ci], balls[cj])
       IN  balls' = IF checkBallCollision(balls[ci], balls[cj])
                    THEN [balls EXCEPT ![ci] = r[1], ![cj] = r[2]]
                    ELSE balls
    /\ IF cj + 1 < NumBalls
       THEN /\ cj' = cj + 1
            /\ UNCHANGED <<ci, iteration>>
       ELSE IF ci + 2 < NumBalls
       THEN /\ ci' = ci + 1
            /\ cj' = ci + 2
            /\ UNCHANGED iteration
       ELSE /\ ci' = 0
            /\ cj' = 1
            /\ iteration' = iteration + 1
    /\ UNCHANGED <<isDragging, draggedBallIndex, input, pc, worker, frame, snap>>

\* lines 170-171: handleCollisions returns, drawing begins
CollideDone ==
    /\ pc = "collide"
    /\ iteration = maxIterations
    /\ pc' = "render"
    /\ UNCHANGED <<balls, isDragging, draggedBallIndex, input, worker,
                   iteration, ci, cj, frame, snap>>

\* lines 171-178: the balls are drawn, the frame ends
Render ==
    /\ pc = "render"
    /\ pc' = "input"
    /\ frame' = frame + 1
    /\ UNCHANGED <<balls, isDragging, draggedBallIndex, input, worker,
                   iteration, ci, cj, snap>>

Next ==
    \/ HandleInput
    \/ CloseWindow
    \/ \E w \in Workers : WorkerStart(w)
    \/ \E w \in Workers : WorkerForce(w)
    \/ \E w \in Workers : WorkerIntegrate(w)
    \/ \E w \in Workers : WorkerBounds(w)
    \/ Join
    \/ CollidePair
    \/ CollideDone
    \/ Render

Spec == Init /\ [][Next]_vars

\* ------------------------------------------------------------------------
\* resolveBallCollision called on one pair, MaxCalls times in a row
\* ------------------------------------------------------------------------
ResolveOffsets == {V(F(0), F(0)), V(F(3), F(4)), V(F(6), F(0)), V(F(0), F(-8)),
                   V(F(6), F(8)), V(F(-9), F(12))}
ResolveVelocities == {V(F(0), F(0)), V(F(2), F(0)), V(F(-2), F(1))}
ResolveRandoms == {0, 32}
ResolveOrigin == V(F(100), F(100))

InitResolve ==
    /\ balls \in [{0, 1} -> [position : {Vector2Add(ResolveOrigin, o) : o \in ResolveOffsets},
                             velocity : ResolveVelocities,
                             acceleration : {VZero},
                             radius : {F(BallRadius)},
                             mass : {MassOf(F(BallRadius), r) : r \in ResolveRandoms}]]
    /\ balls[0].position = ResolveOrigin
    /\ isDragging = FALSE
    /\ draggedBallIndex = -1
    /\ input = NoInput
    /\ pc = "resolve"
    /\ worker = [w \in Workers |-> Idle]
    /\ iteration = 0
    /\ ci = 0
    /\ cj = 1
    /\ frame = 0
    /\ snap = balls

ResolveCall ==
    /\ pc = "resolve"
    /\ frame < MaxCalls
    /\ LET r == resolveBallCollision(balls[0], balls[1])
       IN  balls' = [i \in {0, 1} |-> r[i + 1]]
    /\ snap' = balls
    /\ frame' = frame + 1
    /\ UNCHANGED <<isDragging, draggedBallIndex, input, pc, worker, iteration, ci, cj>>

SpecResolve == InitResolve /\ [][ResolveCall]_vars

\* ------------------------------------------------------------------------
\* the boundary wrap applied to one ball, MaxWraps times in a row
\* ------------------------------------------------------------------------
WrapXs == {F(-6), <<-11, 2>>, F(-5), F(0), F(800), F(1600), F(1605), <<3211, 2>>,
           F(1606), F(1610)}
WrapYs == {F(-6), <<-11, 2>>, F(-5), F(0), F(450), F(900), F(905), <<1811, 2>>,
           F(906), F(910)}

InitWrap ==
    /\ balls \in [{0} -> [position : {V(x, y) : x \in WrapXs, y \in WrapYs},
                          velocity : {VZero},
                          acceleration : {VZero},
                          radius : {F(BallRadius)},
                          mass : {MassOf(F(BallRadius), 0)}]]
    /\ isDragging = FALSE
    /\ draggedBallIndex = -1
    /\ input = NoInput
    /\ pc = "wrap"
    /\ worker = [w \in Workers |-> Idle]
    /\ iteration = 0
    /\ ci = 0
    /\ cj = 1
    /\ frame = 0
    /\ snap = balls

WrapCall ==
    /\ pc = "wrap"
    /\ frame < MaxWraps
    /\ balls' = [i \in {0} |-> Bounds(balls[i])]
    /\ snap' = balls
    /\ frame' = frame + 1
    /\ UNCHANGED <<isDragging, draggedBallIndex, input, pc, worker, iteration, ci, cj>>

SpecWrap == InitWrap /\ [][WrapCall]_vars

\* ------------------------------------------------------------------------
\* Properties
\* ------------------------------------------------------------------------
WorkersAllDone == \A w \in Workers : worker[w].at = "done"
Velocities(bs) == [i \in DOMAIN bs |-> bs[i].velocity]

\* the acceleration of ball i under the gravity of every other ball of bs
RECURSIVE GravitySum(_, _, _, _)
GravitySum(bs, i, j, k) ==
    IF j \notin DOMAIN bs THEN k.sum
    ELSE GravitySum(bs, i, j + 1,
            IF j = i THEN k
            ELSE KahanAdd(k, Vector2Scale(calculateGravitationalForce(bs[i], bs[j]),
                                          QDiv(F(1), bs[i].mass))))
\* ball i of bs after force accumulation, integration and wrap from bs
SteppedFrom(bs, i, deltaTime) ==
    Bounds(Integrate(bs[i], GravitySum(bs, i, 0, KahanNew), deltaTime))

\* C1: in a frame in which ball d is the dragged one, the whole simulation
\* step leaves the velocity and the acceleration of d as they were when the
\* frame began, whatever the other balls do.
C1_DraggedKeepsVelocity ==
    (pc = "render" /\ isDragging) =>
        /\ balls[draggedBallIndex].velocity = snap[draggedBallIndex].velocity
        /\ balls[draggedBallIndex].acceleration = snap[draggedBallIndex].acceleration

\* C2: in a frame in which ball d is dragged, every other ball has, when the
\* parallel loop ends, the acceleration gravity gives it (d among the
\* sources) and its velocity and position advanced by it.
C2_OthersStillIntegrated ==
    (pc = "parallel" /\ WorkersAllDone /\ isDragging) =>
        \A i \in DOMAIN balls :
            i # draggedBallIndex => balls[i] = SteppedFrom(snap, i, input.deltaTime)

\* C3: every position a worker reads while it sums the gravity on its ball
\* is the position that ball had when the parallel loop began.
C3_ReadsSnapshot ==
    \A w \in Workers :
        (pc = "parallel" /\ worker[w].at = "force"
            /\ worker[w].j < NumBalls /\ worker[w].j # worker[w].i)
        => balls[worker[w].j].position = snap[worker[w].j].position

\* C4: for an overlapping pair at rest, a call of resolveBallCollision leaves
\* the overlap strictly smaller than it was before the call.
C4_OverlapDecreases ==
    (pc = "resolve" /\ frame >= 1
        /\ \A i \in DOMAIN snap : snap[i].velocity = VZero
        /\ QGt(Overlap(snap[0], snap[1]), Zero))
    => QLt(Overlap(balls[0], balls[1]), Overlap(snap[0], snap[1]))

\* total momentum m1*v1 + m2*v2 of a pair
Momentum(bs) ==
    Vector2Add(Vector2Scale(bs[0].velocity, bs[0].mass),
               Vector2Scale(bs[1].velocity, bs[1].mass))

\* C5: a call of resolveBallCollision leaves the total momentum of the pair
\* unchanged on both axes, whether or not the impulse is applied.
C5_MomentumConserved ==
    (pc = "resolve" /\ frame >= 1) => Momentum(balls) = Momentum(snap)

C5_Witness ==
    /\ pc = "resolve"
    /\ frame >= 1
    /\ balls[0].mass # balls[1].mass
    /\ checkBallCollision(snap[0], snap[1])
    /\ balls[0].velocity # snap[0].velocity
    /\ balls[1].velocity # snap[1].velocity

\* C6 as stated: after the wrap a ball that was exactly at viewportWidth +
\* radius is at -radius, and a ball that was below -radius is at
\* viewportWidth + radius.
C6_WrapAtEdge ==
    (pc = "wrap" /\ frame >= 1) =>
        /\ snap[0].position.x = F(screenWidth + BallRadius)
                => balls[0].position.x = F(-BallRadius)
        /\ QLt(snap[0].position.x, F(-BallRadius))
                => balls[0].position.x = F(screenWidth + BallRadius)

\* C6 amended: after the wrap a ball that was beyond viewportWidth + radius
\* is at -radius, a ball that was exactly at viewportWidth + radius is where
\* it was, and a ball that was below -radius is at viewportWidth + radius.
C6_WrapBeyondEdge ==
    (pc = "wrap" /\ frame >= 1) =>
        /\ QGt(snap[0].position.x, F(screenWidth + BallRadius))
                => balls[0].position.x = F(-BallRadius)
        /\ snap[0].position.x = F(screenWidth + BallRadius)
                => balls[0].position.x = snap[0].position.x
        /\ QLt(snap[0].position.x, F(-BallRadius))
                => balls[0].position.x = F(screenWidth + BallRadius)

C6_Witness ==
    /\ pc = "wrap"
    /\ frame = 1
    /\ snap[0].position.x = F(screenWidth + BallRadius)
    /\ balls[0].position.x = F(screenWidth + BallRadius)

\* C7: handleCollisions runs only when every worker of the parallel loop has
\* finished (no pair is resolved while a worker can still step), and the
\* balls are drawn only when all its iterations are done.
C7_CollideAfterJoin ==
    /\ pc \in {"collide", "render"} => \A w \in Workers : worker[w].at = "done"
    /\ pc = "render" => iteration = maxIterations
    /\ (\E w \in Workers : worker[w].at # "done") => pc = "parallel"

C7_Witness ==
    /\ pc = "collide"
    /\ iteration >= 1
    /\ \A w \in Workers : worker[w].at = "done" /\ worker[w].i = ChunkEnd(w)
    /\ \E i \in DOMAIN balls : balls[i].velocity # snap[i].velocity

\* the release handler meets isDragging = FALSE in the step from s to s'
ReleaseWithNothingDragged ==
    /\ pc = "input"
    /\ pc' = "parallel"
    /\ input'.released
    /\ ~isDragging
    /\ ~input'.pressed \/ HitIndex(balls, input'.mouse) = -1

\* C8: whenever isDragging is true draggedBallIndex is the index of one of
\* the balls, and a release while nothing is dragged changes no ball.
C8_OneValidDragged ==
    /\ [](isDragging => draggedBallIndex \in DOMAIN balls)
    /\ [][ReleaseWithNothingDragged => balls' = balls]_vars

C8_Witness ==
    /\ isDragging
    /\ draggedBallIndex = 0
    /\ frame >= 1
    /\ pc = "parallel"
    /\ balls[0].position = input.mouse

\* C9: radius and mass of every ball are strictly positive, and no step
\* changes a radius, a mass or the number of balls.
C9_RadiusMassFixed ==
    /\ [](\A i \in DOMAIN balls :
            QGt(balls[i].radius, Zero) /\ QGt(balls[i].mass, Zero))
    /\ [][/\ DOMAIN balls' = DOMAIN balls
          /\ \A i \in DOMAIN balls :
                /\ balls'[i].radius = balls[i].radius
                /\ balls'[i].mass = balls[i].mass]_vars

C9_Witness ==
    /\ pc = "input"
    /\ frame >= 1
    /\ \E i \in DOMAIN balls :
        /\ balls[i].position # snap[i].position
        /\ balls[i].velocity # snap[i].velocity

\* C10: a call of resolveBallCollision changes the velocities only when the
\* relative velocity projected on the normal was negative; it then leaves
\* that projection at the negation of what it was, and the call that follows
\* changes no velocity.
C10_ImpulseOnlyWhenApproaching ==
    /\ []((pc = "resolve" /\ frame >= 1 /\ Velocities(balls) # Velocities(snap)) =>
            /\ QLt(RelativeSpeed(snap[0], snap[1]), Zero)
            /\ RelativeSpeed(balls[0], balls[1])
                    = QSub(Zero, RelativeSpeed(snap[0], snap[1])))
    /\ [][(pc = "resolve" /\ frame >= 1 /\ Velocities(balls) # Velocities(snap))
            => Velocities(balls') = Velocities(balls)]_vars

C10_Witness ==
    /\ pc = "resolve"
    /\ frame = 1
    /\ Velocities(balls) # Velocities(snap)
    /\ QGt(RelativeSpeed(balls[0], balls[1]), Zero)
    /\ balls[0].position # snap[0].position

====
